---- MODULE Spec2Model ----
(***************************************************************************)
(* The bounded-buffer producer/consumer coordinator of                     *)
(* src/examples/sync_basics.rs (producer_consumer_example): one            *)
(* Mutex<Vec<String>> shared by producer and consumer threads, with the    *)
(* condition variables not_empty and not_full.                             *)
(*                                                                         *)
(* The source fixes the configuration by literals (2 producers of 5 items, *)
(* 2 consumers of 5 items, BUFFER_SIZE = 5).  The model keeps the          *)
(* configuration in variables that never change after Init, so that the    *)
(* same thread code can be run under the shipped configuration and under   *)
(* the other configurations the specification talks about.                 *)
(*                                                                         *)
(* The module also holds format_token_amount of                            *)
(* src/examples/alloy_contract_call.rs, a pure function of U256 values,    *)
(* with a specification of its own (FormatSpec) that applies it to a       *)
(* bounded set of arguments.                                               *)
(*                                                                         *)
(* The two other examples of sync_basics.rs have specifications of their   *)
(* own as well: rwlock_example (RwSpec), three readers and one writer of   *)
(* an RwLock<HashMap>, and mutex_example (CounterSpec), five threads       *)
(* incrementing a Mutex<i32>.                                              *)
(***************************************************************************)
EXTENDS Naturals, Sequences, FiniteSets, Bags

VARIABLES
    capacity,          \* BUFFER_SIZE of the run
    numProducers,      \* bound of `for i in 0..2` (producers)
    itemsPerProducer,  \* bound of `for j in 0..5` (producers)
    numConsumers,      \* bound of `for i in 0..2` (consumers)
    itemsPerConsumer,  \* bound of `for _ in 0..5` (consumers)
    buffer,            \* the Vec<String> inside the Mutex
    mutex,             \* the thread owning the MutexGuard, or Free
    poisoned,          \* the Mutex's poison flag
    not_empty,         \* threads blocked in not_empty.wait
    not_full,          \* threads blocked in not_full.wait
    pc,                \* each thread's position in its closure
    iter,              \* each thread's loop counter (j)
    pushed,            \* history: bag of the items passed to buf.push
    popped,            \* history: bag of the items returned by buf.remove(0)
    pending,           \* history: the thread's current operation saw its
                       \* blocking predicate hold and no complementary
                       \* operation has completed since
    stamps,            \* history: for each element of the Vec, in the Vec's
                       \* order, the number of its push among all pushes,
                       \* with the item pushed
    main,              \* the position of the thread that spawned the others
    joined,            \* how many of `handles` that thread has joined
    report,            \* what it has printed as the final buffer state
    amount,            \* format_token_amount: argument `amount`
    decimals,          \* format_token_amount: argument `decimals`
    formatted,         \* format_token_amount: the String returned
    call,              \* format_token_amount: before or after the call
    map,               \* rwlock_example: the HashMap inside the RwLock
    read_guards,       \* rwlock_example: the threads owning a RwLockReadGuard
    write_guard,       \* rwlock_example: the thread owning the RwLockWriteGuard, or Free
    rwpc,              \* rwlock_example: each thread's position in its closure
    pass,              \* rwlock_example: each reader's outer loop counter
    visited,           \* rwlock_example: the keys map.iter() has yielded in this pass
    observed,          \* history: the (key, value) pairs the reader's current
                       \* pass has printed
    inserted,          \* rwlock_example: how many of the writer's inserts are done
    rwMain,            \* rwlock_example: the position of the spawning thread
    rwJoined,          \* rwlock_example: how many of `handles` it has joined
    increments,        \* mutex_example: bound of `for j in 0..1000`
    counter,           \* mutex_example: the integer inside the Mutex
    counter_guard,     \* mutex_example: the thread owning the MutexGuard, or Free
    mpc,               \* mutex_example: each thread's position in its closure
    mj,                \* mutex_example: each thread's loop counter (j)
    register,          \* mutex_example: the value a thread read for `*count += 1`,
                       \* 0 when the thread is not inside that statement
    completed,         \* history: the `*count += 1` statements each thread has completed
    mxMain,            \* mutex_example: the position of the spawning thread
    mxJoined,          \* mutex_example: how many of `handles` it has joined
    final              \* mutex_example: what it has printed as "Final count"

config == <<capacity, numProducers, itemsPerProducer, numConsumers, itemsPerConsumer>>
shared == <<buffer, mutex, poisoned, not_empty, not_full>>
orchestrator == <<main, joined, report>>
formatting == <<amount, decimals, formatted, call>>
rwlocking == <<map, read_guards, write_guard, rwpc, pass, visited, observed, inserted,
               rwMain, rwJoined>>
counting == <<increments, counter, counter_guard, mpc, mj, register, completed, mxMain,
              mxJoined, final>>
outside == <<main, joined, report, amount, decimals, formatted, call, rwlocking, counting>>
vars == <<capacity, numProducers, itemsPerProducer, numConsumers, itemsPerConsumer,
          buffer, mutex, poisoned, not_empty, not_full, pc, iter, pushed, popped, pending,
          stamps, main, joined, report, amount, decimals, formatted, call,
          map, read_guards, write_guard, rwpc, pass, visited, observed, inserted, rwMain,
          rwJoined, increments, counter, counter_guard, mpc, mj, register, completed,
          mxMain, mxJoined, final>>

(***************************************************************************)
(* The literals of the source.                                             *)
(***************************************************************************)
BUFFER_SIZE == 5
NUM_PRODUCERS == 2
ITEMS_PER_PRODUCER == 5
NUM_CONSUMERS == 2
ITEMS_PER_CONSUMER == 5

(***************************************************************************)
(* Bounds of the exploration of other configurations.                      *)
(***************************************************************************)
MaxCapacity == 2
MaxItems == 2

Free == <<"free">>
Main == <<"main">>

Producers == {<<"P", i>> : i \in 0 .. numProducers - 1}
Consumers == {<<"C", i>> : i \in 0 .. numConsumers - 1}
Workers == Producers \cup Consumers

IsProducer(w) == w[1] = "P"
Quota(w) == IF IsProducer(w) THEN itemsPerProducer ELSE itemsPerConsumer

(***************************************************************************)
(* format!("{}", n): the decimal digits of n, most significant first.      *)
(***************************************************************************)
Digit(d) == <<"0", "1", "2", "3", "4", "5", "6", "7", "8", "9">>[d + 1]

RECURSIVE Decimal(_)
Decimal(n) == IF n < 10 THEN <<Digit(n)>> ELSE Append(Decimal(n \div 10), Digit(n % 10))

(***************************************************************************)
(* format!("P{}-Item{}", i, j)                                             *)
(***************************************************************************)
FormatItem(i, j) == <<"P">> \o Decimal(i) \o <<"-Item">> \o Decimal(j)

(***************************************************************************)
(* The two loop conditions and the two mutations of the Vec.               *)
(***************************************************************************)
\* Mutant: the comparison of the producer's loop condition off by one.
IsFullOffByOne(buf) == Len(buf) > capacity

IsFull(buf) == Len(buf) >= capacity
IsEmpty(buf) == Len(buf) = 0

\* Mutant: buf.insert(0, item) in place of buf.push(item).
VecInsertFront(buf, item) == <<item>> \o buf

VecPush(buf, item) == Append(buf, item)

\* Mutant: buf[0].clone() in place of buf.remove(0): nothing is removed.
VecPeek0(buf) == [item |-> Head(buf), rest |-> buf]

\* Mutant: buf.swap_remove(0) in place of buf.remove(0): the first element
\* is returned and the last one takes its place.
VecSwapRemove0(buf) ==
    [item |-> Head(buf),
     rest |-> IF Len(buf) <= 1 THEN <<>> ELSE <<buf[Len(buf)]>> \o SubSeq(buf, 2, Len(buf) - 1)]

\* Mutant: buf.pop() in place of buf.remove(0): the last element is taken.
VecPopLast(buf) == [item |-> buf[Len(buf)], rest |-> SubSeq(buf, 1, Len(buf) - 1)]

(***************************************************************************)
(* buf.remove(0) on a non-empty Vec: the element at index 0 is returned    *)
(* and the elements after it are shifted to the left.                      *)
(***************************************************************************)
VecRemove0(buf) == [item |-> Head(buf), rest |-> Tail(buf)]

\* Mutant: the wait loops left out.
BlockedNever(w, buf) == FALSE

Blocked(w, buf) == IF IsProducer(w) THEN IsFull(buf) ELSE IsEmpty(buf)

(***************************************************************************)
(* History: whether an operation of thread w has to wait on a buffer buf   *)
(* (a push on a buffer holding `capacity` items, a pop on an empty one).   *)
(***************************************************************************)
MustBlock(w, buf) == IF IsProducer(w) THEN Len(buf) >= capacity ELSE Len(buf) = 0

(***************************************************************************)
(* The condition variable a thread waits on, and the one it notifies.      *)
(***************************************************************************)
WaitSet(w) == IF IsProducer(w) THEN not_full ELSE not_empty

\* Mutant: each side notifies the condition variable it waits on itself.
NotifyOwnSet(w) == IF IsProducer(w) THEN not_full ELSE not_empty

NotifySet(w) == IF IsProducer(w) THEN not_empty ELSE not_full

TypeOK ==
    /\ capacity \in Nat \ {0}
    /\ buffer \in Seq(Seq(STRING))
    /\ mutex \in Workers \cup {Free, Main}
    /\ poisoned \in BOOLEAN
    /\ not_empty \subseteq Workers
    /\ not_full \subseteq Workers
    /\ pc \in [Workers -> {"lock", "test", "wait", "waiting", "woken", "mutate",
                           "notify", "sleep", "unlock", "done", "panicked"}]
    /\ iter \in [Workers -> Nat]
    /\ pending \in [Workers -> BOOLEAN]
    /\ stamps \in Seq(Nat \X Seq(STRING))
    /\ main \in {"join", "report", "returned", "panicked"}
    /\ joined \in 0 .. numProducers + numConsumers
    /\ report \in Seq(Seq(Seq(STRING)))

(***************************************************************************)
(* The state after the threads are spawned: an empty Vec, an unlocked and  *)
(* unpoisoned Mutex, nobody waiting, every thread before its first lock(). *)
(***************************************************************************)
InitThreads ==
    /\ buffer = <<>>
    /\ mutex = Free
    /\ poisoned = FALSE
    /\ not_empty = {}
    /\ not_full = {}
    /\ pc = [w \in Workers |-> "lock"]
    /\ iter = [w \in Workers |-> 0]
    /\ pushed = EmptyBag
    /\ popped = EmptyBag
    /\ pending = [w \in Workers |-> MustBlock(w, <<>>)]
    /\ stamps = <<>>
    /\ main = "join"
    /\ joined = 0
    /\ report = <<>>

(***************************************************************************)
(* format_token_amount is not called by the threads of sync_basics.rs.     *)
(***************************************************************************)
NotFormatting ==
    /\ amount = <<0>>
    /\ decimals = 0
    /\ formatted = <<>>
    /\ call = "idle"

(***************************************************************************)
(* rwlock_example: three reader threads of three passes each and one       *)
(* writer thread share an RwLock<HashMap<String, String>>.                 *)
(***************************************************************************)
NUM_READERS == 3
READ_PASSES == 3
Readers == {<<"R", i>> : i \in 0 .. NUM_READERS - 1}
Writer == <<"W", 0>>
RwThreads == Readers \cup {Writer}

\* map.insert(k, v): the entry of k is created or overwritten.
HashMapInsert(m, k, v) == [x \in DOMAIN m \cup {k} |-> IF x = k THEN v ELSE m[x]]

HashMapNew == [x \in {} |-> ""]

InitialInserts ==
    <<<<"server_port", "8080">>, <<"max_connections", "1000">>, <<"timeout", "30">>>>

UpdateInserts ==
    <<<<"server_port", "8081">>, <<"max_connections", "2000">>, <<"timeout", "60">>>>

RECURSIVE InsertAll(_, _)
InsertAll(m, inserts) ==
    IF inserts = <<>> THEN m
    ELSE InsertAll(HashMapInsert(m, Head(inserts)[1], Head(inserts)[2]), Tail(inserts))

(***************************************************************************)
(* The state after the initialisation block and the spawning of the four   *)
(* threads: the three initial entries, nobody holding the RwLock.          *)
(***************************************************************************)
RwThreadsStart ==
    /\ map = InsertAll(HashMapNew, InitialInserts)
    /\ read_guards = {}
    /\ write_guard = Free
    /\ rwpc = [t \in RwThreads |-> IF t = Writer THEN "sleep" ELSE "read"]
    /\ pass = [r \in Readers |-> 0]
    /\ visited = [r \in Readers |-> {}]
    /\ observed = [r \in Readers |-> {}]
    /\ inserted = 0
    /\ rwJoined = 0

NotRwLocking == RwThreadsStart /\ rwMain = "idle"

(***************************************************************************)
(* mutex_example: five threads of 1000 increments each share a Mutex<i32>. *)
(***************************************************************************)
NUM_COUNTERS == 5
INCREMENTS == 1000
MaxIncrements == 5
Counters == {<<"M", i>> : i \in 0 .. NUM_COUNTERS - 1}

\* The state after the spawning of the five threads.
CounterThreadsStart ==
    /\ counter = 0
    /\ counter_guard = Free
    /\ mpc = [t \in Counters |-> "lock"]
    /\ mj = [t \in Counters |-> 0]
    /\ register = [t \in Counters |-> 0]
    /\ completed = [t \in Counters |-> 0]
    /\ mxJoined = 0
    /\ final = <<>>

NotCounting == CounterThreadsStart /\ increments = INCREMENTS /\ mxMain = "idle"

InitState == InitThreads /\ NotFormatting /\ NotRwLocking /\ NotCounting

(***************************************************************************)
(* The configuration the source ships.                                     *)
(***************************************************************************)
ShippedConfig ==
    /\ capacity = BUFFER_SIZE
    /\ numProducers = NUM_PRODUCERS
    /\ itemsPerProducer = ITEMS_PER_PRODUCER
    /\ numConsumers = NUM_CONSUMERS
    /\ itemsPerConsumer = ITEMS_PER_CONSUMER

InitShipped == ShippedConfig /\ InitState

(***************************************************************************)
(* The smaller configurations, balanced or not: up to the shipped number   *)
(* of threads on each side, with the capacity and the quotas bounded.      *)
(***************************************************************************)
InitExplored ==
    /\ capacity \in 1 .. MaxCapacity
    /\ numProducers \in 1 .. NUM_PRODUCERS
    /\ numConsumers \in 1 .. NUM_CONSUMERS
    /\ itemsPerProducer \in 1 .. MaxItems
    /\ itemsPerConsumer \in 1 .. MaxItems
    /\ InitState

Init == InitShipped \/ InitExplored

(***************************************************************************)
(* buffer.lock().unwrap(): blocks while another thread owns the guard.  On *)
(* a poisoned Mutex lock() returns Err, unwrap panics and the guard inside *)
(* the error is dropped by the unwinding, so the Mutex is left unlocked.   *)
(***************************************************************************)
\* Mutant: the poison flag ignored (lock().unwrap_or_else(|e| e.into_inner())).
LockIgnoringPoison(w) ==
    /\ pc' = [pc EXCEPT ![w] = "test"]
    /\ mutex' = w

LockResult(w) ==
    IF poisoned
    THEN /\ pc' = [pc EXCEPT ![w] = "panicked"]
         /\ mutex' = Free
    ELSE /\ pc' = [pc EXCEPT ![w] = "test"]
         /\ mutex' = w

Lock(w) ==
    /\ pc[w] = "lock"
    /\ mutex = Free
    /\ LockResult(w)
    /\ UNCHANGED <<config, outside, stamps, buffer, poisoned, not_empty, not_full, iter, pushed, popped, pending>>

(***************************************************************************)
(* The condition of the while loop, evaluated with the guard held.         *)
(***************************************************************************)
Test(w) ==
    /\ pc[w] = "test"
    /\ mutex = w
    /\ pc' = [pc EXCEPT ![w] = IF Blocked(w, buffer) THEN "wait" ELSE "mutate"]
    /\ pending' = [pending EXCEPT ![w] = pending[w] \/ MustBlock(w, buffer)]
    /\ UNCHANGED <<config, outside, stamps, shared, iter, pushed, popped>>

(***************************************************************************)
(* Condvar::wait(guard): unlocks the Mutex and blocks the thread on the    *)
(* condition variable in one atomic step.                                  *)
(***************************************************************************)
\* Mutant: the thread blocks without giving up the guard.
WaitKeepsGuard(w) == w

WaitRelease(w) == Free

\* Mutant: the Mutex unlocked before the thread is registered with the
\* condition variable (and the registration missed).
WaitUnlockFirst(w) ==
    /\ pc[w] = "wait"
    /\ mutex = w
    /\ mutex' = Free
    /\ pc' = [pc EXCEPT ![w] = "waiting"]
    /\ UNCHANGED <<config, outside, stamps, buffer, poisoned, not_empty, not_full, iter,
                   pushed, popped, pending>>

Wait(w) ==
    /\ pc[w] = "wait"
    /\ mutex = w
    /\ mutex' = WaitRelease(w)
    /\ IF IsProducer(w)
       THEN not_full' = not_full \cup {w} /\ UNCHANGED not_empty
       ELSE not_empty' = not_empty \cup {w} /\ UNCHANGED not_full
    /\ pc' = [pc EXCEPT ![w] = "waiting"]
    /\ UNCHANGED <<config, outside, stamps, buffer, poisoned, iter, pushed, popped, pending>>

(***************************************************************************)
(* A blocked thread may leave the wait without any notification.           *)
(***************************************************************************)
SpuriousWakeup(w) ==
    /\ pc[w] = "waiting"
    /\ w \in WaitSet(w)
    /\ IF IsProducer(w)
       THEN not_full' = not_full \ {w} /\ UNCHANGED not_empty
       ELSE not_empty' = not_empty \ {w} /\ UNCHANGED not_full
    /\ pc' = [pc EXCEPT ![w] = "woken"]
    /\ UNCHANGED <<config, outside, stamps, buffer, mutex, poisoned, iter, pushed, popped, pending>>

(***************************************************************************)
(* The second half of Condvar::wait: the woken thread locks the Mutex      *)
(* again; .unwrap() panics when the Mutex is poisoned.                     *)
(***************************************************************************)
\* Mutant: `if` in place of `while`: the condition is not tested again
\* after the wait returns.
ReacquireNoRetest(w) ==
    /\ pc[w] = "woken"
    /\ mutex = Free
    /\ IF poisoned
       THEN pc' = [pc EXCEPT ![w] = "panicked"] /\ mutex' = Free
       ELSE pc' = [pc EXCEPT ![w] = "mutate"] /\ mutex' = w
    /\ UNCHANGED <<config, outside, stamps, buffer, poisoned, not_empty, not_full, iter, pushed, popped, pending>>

\* Mutant: the wait returns without locking the Mutex again.
ReacquireUnlocked(w) ==
    /\ pc[w] = "woken"
    /\ pc' = [pc EXCEPT ![w] = "test"]
    /\ UNCHANGED <<config, outside, stamps, shared, iter, pushed, popped, pending>>

Reacquire(w) ==
    /\ pc[w] = "woken"
    /\ mutex = Free
    /\ LockResult(w)
    /\ UNCHANGED <<config, outside, stamps, buffer, poisoned, not_empty, not_full, iter, pushed, popped, pending>>

(***************************************************************************)
(* Producer: let item = format!(...); buf.push(item.clone());              *)
(***************************************************************************)
Push(w) ==
    /\ pc[w] = "mutate"
    /\ IsProducer(w)
    /\ mutex = w
    /\ LET item == FormatItem(w[2], iter[w])
       IN /\ buffer' = VecPush(buffer, item)
          /\ pushed' = pushed (+) SetToBag({item})
          /\ stamps' = VecPush(stamps, <<BagCardinality(pushed) + 1, item>>)
    /\ pending' = [x \in Workers |-> IF IsProducer(x) THEN pending[x] ELSE FALSE]
    /\ pc' = [pc EXCEPT ![w] = "notify"]
    /\ UNCHANGED <<config, outside, mutex, poisoned, not_empty, not_full, iter, popped>>

(***************************************************************************)
(* Consumer: let item = buf.remove(0);  Vec::remove panics when the index  *)
(* is out of bounds, with the guard alive.                                 *)
(***************************************************************************)
Pop(w) ==
    /\ pc[w] = "mutate"
    /\ ~IsProducer(w)
    /\ mutex = w
    /\ IF Len(buffer) = 0
       THEN /\ poisoned' = TRUE
            /\ mutex' = Free
            /\ pc' = [pc EXCEPT ![w] = "panicked"]
            /\ UNCHANGED <<buffer, popped, pending, stamps>>
       ELSE /\ buffer' = VecRemove0(buffer).rest
            /\ stamps' = VecRemove0(stamps).rest
            /\ popped' = popped (+) SetToBag({VecRemove0(buffer).item})
            /\ pending' = [x \in Workers |-> IF IsProducer(x) THEN FALSE ELSE pending[x]]
            /\ pc' = [pc EXCEPT ![w] = "notify"]
            /\ UNCHANGED <<mutex, poisoned>>
    /\ UNCHANGED <<config, outside, not_empty, not_full, iter, pushed>>

(***************************************************************************)
(* notify_one on the complementary condition variable: one of the threads  *)
(* blocked on it, if any, leaves its wait.                                 *)
(***************************************************************************)
\* Mutant: the notification left out.
WokenNobody(waiters) == {{}}

\* Mutant: notify_all in place of notify_one.
WokenAll(waiters) == {waiters}

Woken(waiters) == IF waiters = {} THEN {{}} ELSE {{x} : x \in waiters}

NotifyOne(w) ==
    /\ pc[w] = "notify"
    /\ mutex = w
    /\ \E ws \in Woken(NotifySet(w)) :
          /\ IF IsProducer(w)
             THEN not_empty' = not_empty \ ws /\ UNCHANGED not_full
             ELSE not_full' = not_full \ ws /\ UNCHANGED not_empty
          /\ pc' = [x \in Workers |-> IF x = w THEN "sleep"
                                      ELSE IF x \in ws THEN "woken" ELSE pc[x]]
    /\ UNCHANGED <<config, outside, stamps, buffer, mutex, poisoned, iter, pushed, popped, pending>>

(***************************************************************************)
(* thread::sleep(...): the guard `buf` is still alive.                     *)
(***************************************************************************)
\* Mutant: drop(buf) before the sleep.
SleepUnlocked(w) ==
    /\ pc[w] = "sleep"
    /\ mutex = w
    /\ mutex' = Free
    /\ pc' = [pc EXCEPT ![w] = "unlock"]
    /\ UNCHANGED <<config, outside, stamps, buffer, poisoned, not_empty, not_full, iter,
                   pushed, popped, pending>>

Sleep(w) ==
    /\ pc[w] = "sleep"
    /\ pc' = [pc EXCEPT ![w] = "unlock"]
    /\ UNCHANGED <<config, outside, stamps, shared, iter, pushed, popped, pending>>

(***************************************************************************)
(* End of the loop body: the guard is dropped, the loop counter advances   *)
(* and the thread either starts its next operation or returns.             *)
(***************************************************************************)
Unlock(w) ==
    /\ pc[w] = "unlock"
    /\ mutex = w
    /\ mutex' = Free
    /\ iter' = [iter EXCEPT ![w] = iter[w] + 1]
    /\ pc' = [pc EXCEPT ![w] = IF iter[w] + 1 < Quota(w) THEN "lock" ELSE "done"]
    /\ pending' = [pending EXCEPT ![w] = iter[w] + 1 < Quota(w) /\ MustBlock(w, buffer)]
    /\ UNCHANGED <<config, outside, stamps, buffer, poisoned, not_empty, not_full, pushed, popped>>

(***************************************************************************)
(* println! panics when writing to stdout fails.  The two println! calls   *)
(* of each loop body run with the guard alive (before the wait, and after  *)
(* the mutation), so the unwinding drops the guard and poisons the Mutex.  *)
(***************************************************************************)
Panic(w) ==
    /\ pc[w] \in {"wait", "notify"}
    /\ mutex = w
    /\ poisoned' = TRUE
    /\ mutex' = Free
    /\ pc' = [pc EXCEPT ![w] = "panicked"]
    /\ UNCHANGED <<config, outside, stamps, buffer, not_empty, not_full, iter, pushed, popped, pending>>

(***************************************************************************)
(* The spawning thread.  `handles` holds the producers' JoinHandles in the *)
(* order of their spawning, then the consumers'.                           *)
(***************************************************************************)
Handle(k) == IF k < numProducers THEN <<"P", k>> ELSE <<"C", k - numProducers>>

\* Mutant: the handles dropped without join(): the threads are detached.
JoinDetached(w) == TRUE

(***************************************************************************)
(* handle.join() returns once the thread has returned or panicked.         *)
(***************************************************************************)
JoinReturns(w) == pc[w] \in {"done", "panicked"}

(***************************************************************************)
(* for handle in handles { handle.join().unwrap(); }: join() gives Err for *)
(* a thread that panicked, and unwrap() then panics in the spawning        *)
(* thread, which ends the process.                                         *)
(***************************************************************************)
Join ==
    /\ main = "join"
    /\ joined < numProducers + numConsumers
    /\ JoinReturns(Handle(joined))
    /\ IF pc[Handle(joined)] = "panicked"
       THEN main' = "panicked" /\ UNCHANGED joined
       ELSE joined' = joined + 1 /\ UNCHANGED main
    /\ UNCHANGED <<config, shared, pc, iter, pushed, popped, pending, stamps, report, formatting,
                   rwlocking, counting>>

(***************************************************************************)
(* let final_buffer = buffer.lock().unwrap();                              *)
(***************************************************************************)
FinalLock ==
    /\ main = "join"
    /\ joined = numProducers + numConsumers
    /\ mutex = Free
    /\ IF poisoned
       THEN main' = "panicked" /\ UNCHANGED mutex
       ELSE main' = "report" /\ mutex' = Main
    /\ UNCHANGED <<config, buffer, poisoned, not_empty, not_full, pc, iter, pushed, popped,
                   pending, stamps, joined, report, formatting, rwlocking, counting>>

(***************************************************************************)
(* println!("... {:?}", *final_buffer); the guard is dropped when the      *)
(* function returns.                                                       *)
(***************************************************************************)
Report ==
    /\ main = "report"
    /\ mutex = Main
    /\ report' = Append(report, buffer)
    /\ mutex' = Free
    /\ main' = "returned"
    /\ UNCHANGED <<config, buffer, poisoned, not_empty, not_full, pc, iter, pushed, popped,
                   pending, stamps, joined, formatting, rwlocking, counting>>

(***************************************************************************)
(* The spawned threads run as long as the process does: a panic of the     *)
(* spawning thread ends it.                                                *)
(***************************************************************************)
Running == main # "panicked"

(***************************************************************************)
(* The steps of the threads' code, with the wakeups a Condvar allows       *)
(* without notification.                                                   *)
(***************************************************************************)
NextNoFault ==
    \/ \E w \in Workers : Running /\ Lock(w)
    \/ \E w \in Workers : Running /\ Test(w)
    \/ \E w \in Workers : Running /\ Wait(w)
    \/ \E w \in Workers : Running /\ SpuriousWakeup(w)
    \/ \E w \in Workers : Running /\ Reacquire(w)
    \/ \E w \in Workers : Running /\ Push(w)
    \/ \E w \in Workers : Running /\ Pop(w)
    \/ \E w \in Workers : Running /\ NotifyOne(w)
    \/ \E w \in Workers : Running /\ Sleep(w)
    \/ \E w \in Workers : Running /\ Unlock(w)
    \/ Join
    \/ FinalLock
    \/ Report

(***************************************************************************)
(* The same, with the panics of println!.                                  *)
(***************************************************************************)
Next ==
    \/ \E w \in Workers : Running /\ Lock(w)
    \/ \E w \in Workers : Running /\ Test(w)
    \/ \E w \in Workers : Running /\ Wait(w)
    \/ \E w \in Workers : Running /\ SpuriousWakeup(w)
    \/ \E w \in Workers : Running /\ Reacquire(w)
    \/ \E w \in Workers : Running /\ Push(w)
    \/ \E w \in Workers : Running /\ Pop(w)
    \/ \E w \in Workers : Running /\ NotifyOne(w)
    \/ \E w \in Workers : Running /\ Sleep(w)
    \/ \E w \in Workers : Running /\ Unlock(w)
    \/ \E w \in Workers : Running /\ Panic(w)
    \/ Join
    \/ FinalLock
    \/ Report

Spec == Init /\ [][Next]_vars

(***************************************************************************)
(* Fair scheduling, as far as termination needs it: the thread owning the  *)
(* guard eventually runs its next statement, and if again and again the    *)
(* Mutex is free while a thread whose loop condition is false requests it, *)
(* such a thread eventually gets it.  (Strong fairness of every thread's   *)
(* acquisition implies the second condition, since the buffer changes only *)
(* finitely often.)  Wakeups without notification are never forced.        *)
(***************************************************************************)
Holding(w) == Test(w) \/ Wait(w) \/ Push(w) \/ Pop(w) \/ NotifyOne(w) \/ Sleep(w) \/ Unlock(w)
Acquire(w) == Lock(w) \/ Reacquire(w)

ThreadIds == ({"P"} \X (0 .. NUM_PRODUCERS - 1)) \cup ({"C"} \X (0 .. NUM_CONSUMERS - 1))

Fairness ==
    /\ WF_vars(\E w \in ThreadIds : w \in Workers /\ Holding(w))
    /\ SF_vars(\E w \in ThreadIds : w \in Workers /\ ~Blocked(w, buffer) /\ Acquire(w))

FairSpec == InitExplored /\ [][NextNoFault]_vars /\ Fairness
ShippedSpec == InitShipped /\ [][NextNoFault]_vars /\ Fairness

AllDone == \A w \in Workers : pc[w] = "done"

(***************************************************************************)
(* The number of loop iterations of a set of threads, all together.        *)
(***************************************************************************)
RECURSIVE TotalQuota(_)
TotalQuota(S) ==
    IF S = {} THEN 0
    ELSE LET w == CHOOSE x \in S : TRUE IN Quota(w) + TotalQuota(S \ {w})

TotalProduced == TotalQuota(Producers)
TotalConsumed == TotalQuota(Consumers)
Balanced == TotalProduced = TotalConsumed

(***************************************************************************)
(* format_token_amount (src/examples/alloy_contract_call.rs).              *)
(*                                                                         *)
(* A U256 is a natural number below 2^256.  It is kept as the sequence of  *)
(* its decimal digits, most significant first and without leading zeros    *)
(* (<<0>> for zero), so that the arithmetic has the full width of 256 bits.*)
(***************************************************************************)
TWO_POW_256 ==
    <<1,1,5,7,9,2,0,8,9,2,3,7,3,1,6,1,9,5,4,2,3,5,7,0,9,8,5,0,0,8,6,8,7,9,0,7,8,5,3,2,
      6,9,9,8,4,6,6,5,6,4,0,5,6,4,0,3,9,4,5,7,5,8,4,0,0,7,9,1,3,1,2,9,6,3,9,9,3,6>>

Zeros(n) == [k \in 1 .. n |-> 0]

\* The digits of a number without its leading zeros.
Strip(s) ==
    LET nz == {k \in 1 .. Len(s) : s[k] # 0}
    IN IF nz = {} THEN <<0>>
       ELSE SubSeq(s, CHOOSE k \in nz : \A j \in nz : k <= j, Len(s))

\* U256::from(n) for a small n.
RECURSIVE U256From(_)
U256From(n) == IF n < 10 THEN <<n>> ELSE Append(U256From(n \div 10), n % 10)

\* remainder.is_zero()
IsZero(a) == a = <<0>>

LexLess(a, b) == \E k \in 1 .. Len(a) : a[k] < b[k] /\ \A j \in 1 .. k - 1 : a[j] = b[j]

\* a < b
Less(a, b) == Len(a) < Len(b) \/ (Len(a) = Len(b) /\ LexLess(a, b))

\* a - b for a >= b: digit by digit, with the borrow of the lower digits.
Sub(a, b) ==
    LET n == Len(a)
        c == Zeros(n - Len(b)) \o b
        borrow(k) == IF LexLess(SubSeq(a, k + 1, n), SubSeq(c, k + 1, n)) THEN 1 ELSE 0
    IN Strip(<<>> \o [k \in 1 .. n |-> (a[k] + 10 - c[k] - borrow(k)) % 10])

DigitSeq == Seq(0 .. 9)

\* How often b fits into r (r < 10 * b), and what is left.
Fit(r0, b0) ==
    LET fit[s \in Nat \X DigitSeq \X DigitSeq] ==
            IF Less(s[2], s[3]) THEN [quot |-> s[1], rem |-> s[2]]
            ELSE fit[<<s[1] + 1, Sub(s[2], s[3]), s[3]>>]
    IN fit[<<0, r0, b0>>]

\* amount / divisor and amount % divisor: long division of a by b # 0,
\* s[1] the position in a, s[2] the quotient and s[3] the remainder so far.
DivMod(a0, b0) ==
    LET div[s \in Nat \X DigitSeq \X DigitSeq \X DigitSeq \X DigitSeq] ==
            LET a == s[4]
                b == s[5]
            IN IF s[1] > Len(a) THEN [quot |-> Strip(s[2]), rem |-> s[3]]
               ELSE LET f == Fit(Strip(Append(s[3], a[s[1]])), b)
                    IN div[<<s[1] + 1, Append(s[2], f.quot), f.rem, a, b>>]
    IN div[<<1, <<0>>, <<0>>, a0, b0>>]

\* 10^n, of any size.
Pow10(n) == <<1>> \o Zeros(n)

(***************************************************************************)
(* U256::from(10).pow(U256::from(decimals)): Uint::pow wraps around on     *)
(* overflow, so the result is 10^decimals modulo 2^256.                    *)
(***************************************************************************)
U256Pow10(n) == DivMod(Pow10(n), TWO_POW_256).rem

\* whole.to_string()
to_string(a) == [k \in 1 .. Len(a) |-> Digit(a[k])]

\* format!("{:0width$}", remainder, width = decimals as usize)
PadZeros(str, width) ==
    IF Len(str) < width THEN [k \in 1 .. width - Len(str) |-> "0"] \o str ELSE str

\* remainder_str.trim_end_matches('0')
TrimEndZeros(str) ==
    LET nz == {k \in 1 .. Len(str) : str[k] # "0"}
    IN IF nz = {} THEN <<>>
       ELSE SubSeq(str, 1, CHOOSE k \in nz : \A j \in nz : k >= j)

format_token_amount(amt, dec) ==
    LET divisor == U256Pow10(dec)
        dm == DivMod(amt, divisor)
        whole == dm.quot
        remainder == dm.rem
    IN IF IsZero(remainder)
       THEN to_string(whole)
       ELSE LET remainder_str == PadZeros(to_string(remainder), dec)
                trimmed == TrimEndZeros(remainder_str)
            IN IF trimmed = <<>>
               THEN to_string(whole)
               ELSE to_string(whole) \o <<".">> \o trimmed

(***************************************************************************)
(* The arguments explored: every `decimals` up to MaxDecimals (the type u8 *)
(* allows 0 .. 255), and the amounts m * 10^k below 2^256 together with    *)
(* U256::MAX.                                                              *)
(***************************************************************************)
MaxDecimals == 78
Mantissas == {0, 1, 15, 105, 1234567}
Shifts == {0, 5, 70, 77}
U256_MAX == Sub(TWO_POW_256, <<1>>)
Amounts ==
    {a \in {Strip(U256From(m[1]) \o Zeros(m[2])) : m \in Mantissas \X Shifts} : Less(a, TWO_POW_256)}
        \cup {U256_MAX}

FormatInit ==
    /\ ShippedConfig
    /\ InitThreads
    /\ amount \in Amounts
    /\ decimals \in 0 .. MaxDecimals
    /\ formatted = <<>>
    /\ call = "called"
    /\ NotRwLocking
    /\ NotCounting

FormatTokenAmount ==
    /\ call = "called"
    /\ formatted' = format_token_amount(amount, decimals)
    /\ call' = "returned"
    /\ UNCHANGED <<config, shared, pc, iter, pushed, popped, pending, stamps, orchestrator,
                   amount, decimals, rwlocking, counting>>

FormatNext == FormatTokenAmount

FormatSpec == FormatInit /\ [][FormatNext]_vars

(***************************************************************************)
(* rwlock_example.  std::sync::RwLock: read() returns once no thread owns  *)
(* the write guard, write() once no thread owns any guard.  No closure of  *)
(* the example panics with a guard alive, so the lock is never poisoned    *)
(* and every unwrap() succeeds.                                            *)
(***************************************************************************)
besidesRwLocking ==
    <<config, shared, pc, iter, pushed, popped, pending, stamps, orchestrator, formatting,
      counting>>

\* Mutant: read() does not wait for the writer.
ReadAdmittedDuringWrite == TRUE

ReadAdmitted == write_guard = Free

WriteAdmitted == write_guard = Free /\ read_guards = {}

(***************************************************************************)
(* let map = config.read().unwrap(); map.iter() starts a new iteration.    *)
(***************************************************************************)
ReadLock(r) ==
    /\ rwMain # "idle"
    /\ rwpc[r] = "read"
    /\ ReadAdmitted
    /\ read_guards' = read_guards \cup {r}
    /\ visited' = [visited EXCEPT ![r] = {}]
    /\ observed' = [observed EXCEPT ![r] = {}]
    /\ rwpc' = [rwpc EXCEPT ![r] = "iter"]
    /\ UNCHANGED <<besidesRwLocking, map, write_guard, pass, inserted, rwMain, rwJoined>>

(***************************************************************************)
(* One turn of `for (key, value) in map.iter() { println!(..) }`: the      *)
(* iterator yields an entry it has not yielded yet, in the HashMap's own   *)
(* order, and the loop ends after the last entry.                          *)
(***************************************************************************)
Iterate(r) ==
    /\ rwpc[r] = "iter"
    /\ \E key \in DOMAIN map \ visited[r] :
        /\ visited' = [visited EXCEPT ![r] = visited[r] \cup {key}]
        /\ observed' = [observed EXCEPT ![r] = observed[r] \cup {<<key, map[key]>>}]
        /\ rwpc' = [rwpc EXCEPT ![r] = IF visited[r] \cup {key} = DOMAIN map
                                        THEN "sleep" ELSE "iter"]
    /\ UNCHANGED <<besidesRwLocking, map, read_guards, write_guard, pass, inserted, rwMain,
                   rwJoined>>

(***************************************************************************)
(* thread::sleep(Duration::from_millis(100)), with `map` alive.            *)
(***************************************************************************)
ReadSleep(r) ==
    /\ rwpc[r] = "sleep"
    /\ rwpc' = [rwpc EXCEPT ![r] = "drop"]
    /\ UNCHANGED <<besidesRwLocking, map, read_guards, write_guard, pass, visited, observed,
                   inserted, rwMain, rwJoined>>

(***************************************************************************)
(* The end of the body of `for _ in 0..3`: `map` is dropped.               *)
(***************************************************************************)
ReadUnlock(r) ==
    /\ rwpc[r] = "drop"
    /\ read_guards' = read_guards \ {r}
    /\ pass' = [pass EXCEPT ![r] = pass[r] + 1]
    /\ rwpc' = [rwpc EXCEPT ![r] = IF pass[r] + 1 < READ_PASSES THEN "read" ELSE "done"]
    /\ UNCHANGED <<besidesRwLocking, map, write_guard, visited, observed, inserted, rwMain,
                   rwJoined>>

(***************************************************************************)
(* The writer: thread::sleep(Duration::from_millis(200)).                  *)
(***************************************************************************)
WriterSleep ==
    /\ rwMain # "idle"
    /\ rwpc[Writer] = "sleep"
    /\ rwpc' = [rwpc EXCEPT ![Writer] = "write"]
    /\ UNCHANGED <<besidesRwLocking, map, read_guards, write_guard, pass, visited, observed,
                   inserted, rwMain, rwJoined>>

(***************************************************************************)
(* let mut map = write_config.write().unwrap();                            *)
(***************************************************************************)
WriteLock ==
    /\ rwpc[Writer] = "write"
    /\ WriteAdmitted
    /\ write_guard' = Writer
    /\ rwpc' = [rwpc EXCEPT ![Writer] = "insert"]
    /\ UNCHANGED <<besidesRwLocking, map, read_guards, pass, visited, observed, inserted,
                   rwMain, rwJoined>>

(***************************************************************************)
(* The next of the three map.insert(..) of the writer.                     *)
(***************************************************************************)
Insert ==
    /\ rwpc[Writer] = "insert"
    /\ inserted < Len(UpdateInserts)
    /\ map' = HashMapInsert(map, UpdateInserts[inserted + 1][1], UpdateInserts[inserted + 1][2])
    /\ inserted' = inserted + 1
    /\ rwpc' = [rwpc EXCEPT ![Writer] = IF inserted + 1 = Len(UpdateInserts)
                                         THEN "drop" ELSE "insert"]
    /\ UNCHANGED <<besidesRwLocking, read_guards, write_guard, pass, visited, observed,
                   rwMain, rwJoined>>

(***************************************************************************)
(* The end of the writer's closure: `map` is dropped.                      *)
(***************************************************************************)
WriteUnlock ==
    /\ rwpc[Writer] = "drop"
    /\ write_guard' = Free
    /\ rwpc' = [rwpc EXCEPT ![Writer] = "done"]
    /\ UNCHANGED <<besidesRwLocking, map, read_guards, pass, visited, observed, inserted,
                   rwMain, rwJoined>>

(***************************************************************************)
(* `handles` holds the readers' JoinHandles, then the writer's; the        *)
(* function returns after the last join().                                 *)
(***************************************************************************)
RwHandle(k) == IF k < NUM_READERS THEN <<"R", k>> ELSE Writer

RwJoin ==
    /\ rwMain = "join"
    /\ rwJoined < NUM_READERS + 1
    /\ rwpc[RwHandle(rwJoined)] = "done"
    /\ rwJoined' = rwJoined + 1
    /\ rwMain' = IF rwJoined + 1 = NUM_READERS + 1 THEN "returned" ELSE "join"
    /\ UNCHANGED <<besidesRwLocking, map, read_guards, write_guard, rwpc, pass, visited,
                   observed, inserted>>

RwInit ==
    /\ ShippedConfig
    /\ InitThreads
    /\ NotFormatting
    /\ NotCounting
    /\ RwThreadsStart
    /\ rwMain = "join"

RwNext ==
    \/ \E r \in Readers : ReadLock(r)
    \/ \E r \in Readers : Iterate(r)
    \/ \E r \in Readers : ReadSleep(r)
    \/ \E r \in Readers : ReadUnlock(r)
    \/ WriterSleep
    \/ WriteLock
    \/ Insert
    \/ WriteUnlock
    \/ RwJoin

RwSpec == RwInit /\ [][RwNext]_vars

(***************************************************************************)
(* mutex_example.  No closure panics with the guard alive (the counter     *)
(* stays far below i32::MAX), so the Mutex is never poisoned and every     *)
(* unwrap() succeeds.                                                      *)
(***************************************************************************)
besidesCounting ==
    <<config, shared, pc, iter, pushed, popped, pending, stamps, orchestrator, formatting,
      rwlocking>>

\* Mutant: lock() returns although another thread owns the guard.
CounterLockShared == TRUE

(***************************************************************************)
(* Mutex::lock returns once no thread owns the guard.                      *)
(***************************************************************************)
CounterLockAdmitted == counter_guard = Free

(***************************************************************************)
(* let mut count = counter.lock().unwrap();                                *)
(***************************************************************************)
CounterLock(t) ==
    /\ mxMain # "idle"
    /\ mpc[t] = "lock"
    /\ CounterLockAdmitted
    /\ counter_guard' = t
    /\ mpc' = [mpc EXCEPT ![t] = "load"]
    /\ UNCHANGED <<besidesCounting, increments, counter, mj, register, completed, mxMain,
                   mxJoined, final>>

(***************************************************************************)
(* *count += 1, first half: the value behind the guard is read.            *)
(***************************************************************************)
Load(t) ==
    /\ mpc[t] = "load"
    /\ register' = [register EXCEPT ![t] = counter]
    /\ mpc' = [mpc EXCEPT ![t] = "store"]
    /\ UNCHANGED <<besidesCounting, increments, counter, counter_guard, mj, completed, mxMain,
                   mxJoined, final>>

(***************************************************************************)
(* *count += 1, second half: the value read, plus one, is written back;    *)
(* the temporary holding the value read is dead from here on.              *)
(***************************************************************************)
Store(t) ==
    /\ mpc[t] = "store"
    /\ counter' = register[t] + 1
    /\ register' = [register EXCEPT ![t] = 0]
    /\ completed' = [completed EXCEPT ![t] = completed[t] + 1]
    /\ mpc' = [mpc EXCEPT ![t] = "drop"]
    /\ UNCHANGED <<besidesCounting, increments, counter_guard, mj, mxMain, mxJoined, final>>

(***************************************************************************)
(* The end of the body of `for j in 0..1000`: `count` is dropped.          *)
(***************************************************************************)
CounterUnlock(t) ==
    /\ mpc[t] = "drop"
    /\ counter_guard' = Free
    /\ mj' = [mj EXCEPT ![t] = mj[t] + 1]
    /\ mpc' = [mpc EXCEPT ![t] = IF mj[t] + 1 < increments THEN "lock" ELSE "done"]
    /\ UNCHANGED <<besidesCounting, increments, counter, register, completed, mxMain,
                   mxJoined, final>>

(***************************************************************************)
(* for handle in handles { handle.join().unwrap(); }                       *)
(***************************************************************************)
CounterJoin ==
    /\ mxMain = "join"
    /\ mxJoined < NUM_COUNTERS
    /\ mpc[<<"M", mxJoined>>] = "done"
    /\ mxJoined' = mxJoined + 1
    /\ UNCHANGED <<besidesCounting, increments, counter, counter_guard, mpc, mj, register,
                   completed, mxMain, final>>

(***************************************************************************)
(* println!("Final count: {}", *counter.lock().unwrap()); the guard is a   *)
(* temporary of the statement.                                             *)
(***************************************************************************)
FinalCount ==
    /\ mxMain = "join"
    /\ mxJoined = NUM_COUNTERS
    /\ CounterLockAdmitted
    /\ final' = Append(final, counter)
    /\ mxMain' = "returned"
    /\ UNCHANGED <<besidesCounting, increments, counter, counter_guard, mpc, mj, register,
                   completed, mxJoined>>

CounterInit ==
    /\ ShippedConfig
    /\ InitThreads
    /\ NotFormatting
    /\ NotRwLocking
    /\ CounterThreadsStart
    /\ increments \in 1 .. MaxIncrements
    /\ mxMain = "join"

CounterNext ==
    \/ \E t \in Counters : CounterLock(t)
    \/ \E t \in Counters : Load(t)
    \/ \E t \in Counters : Store(t)
    \/ \E t \in Counters : CounterUnlock(t)
    \/ CounterJoin
    \/ FinalCount

CounterSpec == CounterInit /\ [][CounterNext]_vars

(***************************************************************************)
(* Auxiliary notions of the properties.                                    *)
(***************************************************************************)
BagOfSeq(seq) ==
    [x \in {seq[k] : k \in DOMAIN seq} |-> Cardinality({k \in DOMAIN seq : seq[k] = x})]

ItemIndexes == (0 .. numProducers - 1) \X (0 .. itemsPerProducer - 1)

\* A step of the threads' code (not a wakeup without notification).
ProgramStep ==
    \E w \in Workers :
        \/ Lock(w) \/ Test(w) \/ Wait(w) \/ Reacquire(w) \/ Push(w)
        \/ Pop(w) \/ NotifyOne(w) \/ Sleep(w) \/ Unlock(w)

PushDone == pushed' # pushed
PopDone == popped' # popped

(***************************************************************************)
(* C1: the buffer never holds more than `capacity` items (its length is a  *)
(* natural number, so never less than 0), a producer about to push sees    *)
(* fewer than `capacity` items and a consumer about to remove sees at      *)
(* least one, in every interleaving and with wakeups without notification. *)
(***************************************************************************)
C1_BufferBounds ==
    /\ Len(buffer) \in 0 .. capacity
    /\ \A w \in Workers : pc[w] = "mutate" => ~MustBlock(w, buffer)

C1_Witness ==
    /\ capacity = BUFFER_SIZE
    /\ Len(buffer) = capacity
    /\ \E w \in Producers : pc[w] = "woken"
    /\ \E w \in Consumers : pc[w] = "mutate"

(***************************************************************************)
(* C2: conservation.  The bag of the items pushed is the bag of the items  *)
(* popped plus the items in the buffer; every (i, j) gives a different     *)
(* item; no item is pushed or popped twice; and when all threads of a      *)
(* balanced configuration (as the shipped one) have finished, the items    *)
(* popped are exactly the items pushed.                                    *)
(***************************************************************************)
C2_Conservation ==
    /\ pushed = popped (+) BagOfSeq(buffer)
    /\ Cardinality({FormatItem(a[1], a[2]) : a \in ItemIndexes}) = Cardinality(ItemIndexes)
    /\ \A x \in BagToSet(pushed) : CopiesIn(x, pushed) = 1
    /\ \A x \in BagToSet(popped) : CopiesIn(x, popped) = 1
    /\ (Balanced /\ AllDone) =>
          /\ BagCardinality(pushed) = TotalProduced
          /\ BagCardinality(popped) = BagCardinality(pushed)
          /\ popped = pushed

C2_Witness ==
    /\ capacity = BUFFER_SIZE
    /\ AllDone
    /\ BagCardinality(popped) = TotalProduced

(***************************************************************************)
(* C3: per-producer order.  Whenever item (i, k) is popped, every item     *)
(* (i, j) with j < k has been popped before.                               *)
(***************************************************************************)
C3_ProducerOrder ==
    [][PopDone =>
          \A a \in ItemIndexes :
             (CopiesIn(FormatItem(a[1], a[2]), popped') > CopiesIn(FormatItem(a[1], a[2]), popped))
                 => \A j \in 0 .. a[2] - 1 : BagIn(FormatItem(a[1], j), popped)]_vars

C3_Witness ==
    /\ numProducers = 2
    /\ BagIn(FormatItem(0, 1), popped)
    /\ BagIn(FormatItem(1, 1), popped)
    /\ Len(buffer) >= 2
    /\ buffer[1] = FormatItem(1, 2)
    /\ buffer[2] = FormatItem(0, 2)

(***************************************************************************)
(* C4: correct blocking.  A thread whose operation has seen its blocking   *)
(* condition (buffer full for a push, empty for a pop) at its start or at  *)
(* one of its tests completes that operation only after a complementary    *)
(* operation has completed; with capacity 1 and a single producer, the     *)
(* second push completes only after a pop.                                 *)
(***************************************************************************)
C4_CorrectBlocking ==
    [][/\ \A w \in Workers : (pc[w] = "mutate" /\ pc'[w] = "notify") => ~pending[w]
       /\ (PushDone /\ capacity = 1 /\ numProducers = 1 /\ BagCardinality(pushed) >= 1)
              => BagCardinality(popped) >= 1]_vars

C4_Witness ==
    /\ capacity = 1
    /\ numProducers = 1
    /\ BagCardinality(pushed) = 2
    /\ BagCardinality(popped) = 1

(***************************************************************************)
(* C5: balanced configurations are free of deadlock: no reachable state    *)
(* has an unfinished thread while no thread can run a statement, and under *)
(* fair scheduling every thread finishes its quota.                        *)
(***************************************************************************)
C5_DeadlockFree ==
    /\ [](Balanced => (AllDone \/ ENABLED ProgramStep))
    /\ (Balanced ~> AllDone)

C5_Witness ==
    /\ Balanced
    /\ AllDone
    /\ capacity = 1
    /\ numProducers = 1
    /\ numConsumers = 2

(***************************************************************************)
(* C6: the shipped configuration terminates under fair scheduling, with    *)
(* an empty buffer once all four threads have returned.                    *)
(***************************************************************************)
C6_ShippedTerminates == <>[](AllDone /\ Cardinality(Workers) = 4 /\ Len(buffer) = 0)

C6_Witness ==
    /\ AllDone
    /\ Len(buffer) = 0
    /\ capacity = 5
    /\ \A w \in Workers : iter[w] = 5

(***************************************************************************)
(* C8 as stated: whenever the total produced differs from the total        *)
(* consumed, some thread never finishes.                                   *)
(***************************************************************************)
C8_UnbalancedNeverDone == ~Balanced => ~AllDone

(***************************************************************************)
(* C8 amended: some thread never finishes its quota whenever the consumers *)
(* ask for more items than are produced, or the producers produce more     *)
(* than the consumers take plus what the buffer can hold.                  *)
(***************************************************************************)
C8_ExcessNeverDone ==
    (TotalConsumed > TotalProduced \/ TotalProduced > TotalConsumed + capacity) => ~AllDone

C8_Witness ==
    /\ TotalProduced > TotalConsumed + capacity
    /\ \A w \in Consumers : pc[w] = "done"
    /\ \E w \in Producers : pc[w] = "waiting"
    /\ \A w \in Producers : pc[w] \in {"waiting", "done"}
    /\ ~poisoned

(***************************************************************************)
(* C9: lock poisoning is fatal.  Once the Mutex is poisoned the buffer is  *)
(* never modified again, and every thread that then gets the Mutex, by     *)
(* lock() or on return from a wait, panics there.                          *)
(***************************************************************************)
C9_PoisonFatal ==
    [][poisoned =>
          /\ buffer' = buffer
          /\ pushed' = pushed
          /\ popped' = popped
          /\ \A w \in Workers :
                (pc[w] \in {"lock", "woken"} /\ pc'[w] # pc[w]) => pc'[w] = "panicked"]_vars

C9_Witness ==
    /\ poisoned
    /\ buffer # <<>>
    /\ Cardinality({w \in Producers : pc[w] = "panicked"}) >= 1
    /\ Cardinality({w \in Consumers : pc[w] = "panicked"}) >= 2

(***************************************************************************)
(* C10: a push appends the producer's new item and leaves the items        *)
(* already there in their order; a pop returns the first item and leaves   *)
(* the others in their order; no other step changes the buffer.            *)
(***************************************************************************)
C10_PushPopEffect ==
    [][/\ PushDone =>
             \E w \in Producers :
                /\ pc[w] = "mutate"
                /\ buffer' = buffer \o <<FormatItem(w[2], iter[w])>>
       /\ PopDone =>
             /\ Len(buffer) > 0
             /\ popped' = popped (+) SetToBag({buffer[1]})
             /\ buffer' = SubSeq(buffer, 2, Len(buffer))
       /\ (~PushDone /\ ~PopDone) => buffer' = buffer]_vars

C10_Witness ==
    /\ Len(buffer) >= 3
    /\ BagCardinality(popped) >= 2

(***************************************************************************)
(* Auxiliary notions for format_token_amount: the value of a digit         *)
(* character, and what it is for a text to denote amt / 10^dec exactly:    *)
(* a whole part without leading zeros, then nothing or a dot and at most   *)
(* dec digits that do not end in 0, such that whole * 10^dec plus the      *)
(* fraction's digits shifted to dec places is amt.                         *)
(***************************************************************************)
DigitValue(c) == CHOOSE d \in 0 .. 9 : Digit(d) = c

DenotesExactly(text, amt, dec) ==
    LET dots == {k \in 1 .. Len(text) : text[k] = "."}
        wlen == IF dots = {} THEN Len(text) ELSE (CHOOSE k \in dots : TRUE) - 1
        W == SubSeq(text, 1, wlen)
        F == SubSeq(text, wlen + 2, Len(text))
        digits(str) == [k \in 1 .. Len(str) |-> DigitValue(str[k])]
    IN /\ Cardinality(dots) <= 1
       /\ wlen >= 1
       /\ wlen > 1 => W[1] # "0"
       /\ dots # {} => (Len(F) >= 1 /\ F[Len(F)] # "0")
       /\ Len(F) <= dec
       /\ Strip(digits(W) \o digits(F) \o Zeros(dec - Len(F))) = amt

RenderedAsClaimed(text, amt, dec) ==
    LET dm == DivMod(amt, Pow10(dec))
        w == dm.quot
        r == dm.rem
        frac == TrimEndZeros(PadZeros(to_string(r), dec))
    IN /\ text = IF IsZero(r) THEN to_string(w) ELSE to_string(w) \o <<".">> \o frac
       /\ DenotesExactly(text, amt, dec)

(***************************************************************************)
(* C11: format_token_amount(amount, decimals) renders amount / 10^decimals *)
(* exactly: with w and r the quotient and the remainder of amount by       *)
(* 10^decimals, the text of w when r = 0, and otherwise w, a dot, and r    *)
(* padded with zeros to `decimals` digits without its trailing zeros; the  *)
(* fraction is never empty and never ends in 0.                            *)
(***************************************************************************)
C11_ExactRendering ==
    call = "returned" => RenderedAsClaimed(formatted, amount, decimals)

\* The same for the arguments whose 10^decimals is below 2^256.
ExactWithoutOverflow ==
    (call = "returned" /\ Less(Pow10(decimals), TWO_POW_256))
        => RenderedAsClaimed(formatted, amount, decimals)

C11_Witness ==
    /\ call = "returned"
    /\ decimals = 78
    /\ amount = Pow10(77)
    /\ Len(formatted) = 80
    /\ formatted[1] = "1"

(***************************************************************************)
(* The positions of a thread at which its MutexGuard `buf` is alive: from  *)
(* the return of lock() or wait() to the end of the loop body.  The Vec is *)
(* read at "test" (buf.len(), buf.is_empty()) and at "notify" (the         *)
(* buf.len() printed after the mutation) and written at "mutate".          *)
(***************************************************************************)
GuardAlive(w) == pc[w] \in {"test", "wait", "mutate", "notify", "sleep", "unlock"}
AccessesBuffer(w) == pc[w] \in {"test", "mutate", "notify"}

(***************************************************************************)
(* C12: mutual exclusion.  At most one thread holds the buffer's lock at   *)
(* any time, and every thread that reads the buffer (length test,          *)
(* emptiness test, printed length) or writes it (push, remove) holds the   *)
(* lock; so does the spawning thread when it reads the final buffer.       *)
(***************************************************************************)
C12_MutualExclusion ==
    /\ Cardinality({w \in Workers : GuardAlive(w)}) + (IF main = "report" THEN 1 ELSE 0) <= 1
    /\ \A w \in Workers : GuardAlive(w) => mutex = w
    /\ \A w \in Workers : AccessesBuffer(w) => mutex = w
    /\ main = "report" => mutex = Main

C12_Witness ==
    \E h \in Workers :
        /\ pc[h] = "mutate"
        /\ mutex = h
        /\ \E w \in Workers \ {h} : pc[w] = "lock"
        /\ \E w \in Workers \ {h} : pc[w] = "woken"

(***************************************************************************)
(* C13: the predicate is tested again after every wakeup.  A thread that   *)
(* returns from a wait, notified or not, goes back to its loop condition;  *)
(* it reaches its mutation only from a test that found room (producer) or  *)
(* an item (consumer) with the lock held, and waits again otherwise.  So   *)
(* the bounds and the conservation of items hold after every step, with    *)
(* wakeups without notification and when another thread has taken the slot *)
(* or the item between the notification and the re-acquisition.            *)
(***************************************************************************)
C13_RecheckAfterWakeup ==
    [][/\ \A w \in Workers :
             /\ (pc[w] = "woken" /\ pc'[w] # "woken") => pc'[w] \in {"test", "panicked"}
             /\ (pc[w] = "test" /\ pc'[w] # "test")
                    => pc'[w] = IF MustBlock(w, buffer) THEN "wait" ELSE "mutate"
             /\ (pc[w] # "mutate" /\ pc'[w] = "mutate")
                    => (pc[w] = "test" /\ mutex = w /\ ~MustBlock(w, buffer))
       /\ Len(buffer') <= capacity
       /\ pushed' = popped' (+) BagOfSeq(buffer')]_vars

C13_Witness ==
    /\ ~poisoned
    /\ mutex = Free
    /\ BagCardinality(popped) >= 1
    /\ \E c \in Consumers : pc[c] = "woken" /\ Len(buffer) = 0
    /\ \E p \in Producers : pc[p] = "waiting"

(***************************************************************************)
(* C14: a thread blocked in a wait does not hold the lock.  Entering the   *)
(* wait releases the lock and registers the thread with the condition      *)
(* variable in one step: a thread is blocked in a wait exactly when it is  *)
(* registered with its condition variable, and while a thread is between   *)
(* its test and its wait no other thread is at a notify_one.  A woken      *)
(* thread holds the lock again when it tests its predicate.                *)
(***************************************************************************)
C14_WaitReleasesLock ==
    /\ \A w \in Workers : pc[w] \in {"waiting", "woken"} => mutex # w
    /\ \A w \in Workers : pc[w] = "waiting" <=> w \in WaitSet(w)
    /\ not_full \subseteq Producers
    /\ not_empty \subseteq Consumers
    /\ \A w \in Workers :
          pc[w] = "wait" => (mutex = w /\ \A x \in Workers \ {w} : pc[x] # "notify")
    /\ \A w \in Workers : pc[w] = "test" => mutex = w

C14_Witness ==
    \E c \in Consumers, p \in Producers :
        /\ pc[c] = "waiting"
        /\ c \in not_empty
        /\ pc[p] = "notify"
        /\ mutex = p

(***************************************************************************)
(* C15: single-wake signalling.  A thread that has completed its push or   *)
(* its remove goes on to exactly one notify_one (unless println! panics    *)
(* before it) and from there to its delay.  The notify_one of a producer   *)
(* wakes at most one thread, a consumer blocked on not_empty, and leaves   *)
(* not_full alone; that of a consumer wakes at most one thread, a producer *)
(* blocked on not_full, and leaves not_empty alone.  With nobody blocked   *)
(* on the condition variable the notification changes nothing.             *)
(***************************************************************************)
C15_SingleWake ==
    [][\A w \in Workers :
          /\ (pc[w] = "mutate" /\ pc'[w] # "mutate") => pc'[w] \in {"notify", "panicked"}
          /\ (pc[w] = "notify" /\ pc'[w] # "notify") => pc'[w] \in {"sleep", "panicked"}
          /\ (pc[w] = "notify" /\ pc'[w] = "sleep") =>
                LET woken == {x \in Workers : pc[x] = "waiting" /\ pc'[x] = "woken"}
                IN /\ Cardinality(woken) <= 1
                   /\ buffer' = buffer
                   /\ mutex' = mutex
                   /\ \A x \in Workers \ (woken \cup {w}) : pc'[x] = pc[x]
                   /\ IF IsProducer(w)
                      THEN /\ woken \subseteq Consumers \cap not_empty
                           /\ not_empty' = not_empty \ woken
                           /\ not_full' = not_full
                           /\ not_empty = {} => woken = {}
                      ELSE /\ woken \subseteq Producers \cap not_full
                           /\ not_full' = not_full \ woken
                           /\ not_empty' = not_empty
                           /\ not_full = {} => woken = {}]_vars

C15_Witness ==
    \E p \in Producers, c1 \in Consumers, c2 \in Consumers :
        /\ pc[p] = "sleep"
        /\ Len(buffer) = 1
        /\ pc[c1] = "woken"
        /\ pc[c2] = "waiting"
        /\ c2 \in not_empty

(***************************************************************************)
(* C16: a thread is held up by other threads only inside its push while    *)
(* the buffer is full and inside its pop while the buffer is empty: the    *)
(* lock is released once the mutation and its notification are complete,   *)
(* so no thread owns the lock during its artificial delay and no thread    *)
(* that requests the lock is kept waiting by a thread in its delay.        *)
(***************************************************************************)
C16_DelayDoesNotBlock ==
    /\ \A h \in Workers : pc[h] = "sleep" => mutex # h
    /\ \A w \in Workers :
          pc[w] \in {"lock", "woken"} => ~(mutex \in Workers /\ pc[mutex] = "sleep")

C16_Witness ==
    \E p \in Producers, c \in Consumers :
        /\ capacity = BUFFER_SIZE
        /\ pc[p] = "sleep"
        /\ mutex = p
        /\ pc[c] = "lock"
        /\ ~MustBlock(c, buffer)
        /\ ~ENABLED Acquire(c)

(***************************************************************************)
(* C17: the spawning thread reads and prints the final buffer only after   *)
(* every producer and consumer thread has returned: in a state with a      *)
(* report all threads are done and the report is the buffer, no push or    *)
(* pop follows the report, and in a balanced configuration the buffer      *)
(* reported is empty.                                                      *)
(***************************************************************************)
C17_ReportAfterTermination ==
    [][/\ report' # <<>> =>
             /\ \A w \in Workers : pc'[w] = "done"
             /\ report' = <<buffer'>>
             /\ Balanced => report'[1] = <<>>
       /\ report' # report => (report = <<>> /\ main = "report" /\ mutex = Main)
       /\ (report # <<>> \/ main \in {"report", "returned"}) =>
             (buffer' = buffer /\ pushed' = pushed /\ popped' = popped)]_vars

C17_Witness ==
    /\ capacity = BUFFER_SIZE
    /\ Balanced
    /\ BagCardinality(popped) = NUM_PRODUCERS * ITEMS_PER_PRODUCER
    /\ main = "returned"
    /\ report = <<(<<>>)>>

(***************************************************************************)
(* A thread that will not act before another thread wakes it: returned, or *)
(* blocked in a wait without having been notified.                         *)
(***************************************************************************)
Idle(w) == pc[w] = "done" \/ (pc[w] = "waiting" /\ w \in WaitSet(w))

(***************************************************************************)
(* C18: no lost wakeup.  In no reachable state is the buffer non-empty     *)
(* while a consumer is blocked un-notified on not_empty and every other    *)
(* thread has returned or is blocked un-notified; nor is the buffer below  *)
(* its capacity while a producer is blocked un-notified on not_full and    *)
(* every other thread has returned or is blocked un-notified.              *)
(***************************************************************************)
C18_NoLostWakeup ==
    /\ ~ /\ Len(buffer) > 0
         /\ \E c \in Consumers :
               /\ pc[c] = "waiting"
               /\ c \in not_empty
               /\ \A x \in Workers \ {c} : Idle(x)
    /\ ~ /\ Len(buffer) < capacity
         /\ \E p \in Producers :
               /\ pc[p] = "waiting"
               /\ p \in not_full
               /\ \A x \in Workers \ {p} : Idle(x)

C18_Witness ==
    \E c \in Consumers, p \in Producers :
        /\ Len(buffer) > 0
        /\ pc[c] = "waiting"
        /\ c \in not_empty
        /\ pc[p] = "notify"
        /\ \A x \in Workers \ {c, p} : Idle(x)

(***************************************************************************)
(* C19: global FIFO.  Number the pushes 1, 2, ... in the order they occur, *)
(* over all producers, and the pops likewise.  At every reachable state    *)
(* the buffer holds exactly the pushes that follow the pops made so far,   *)
(* in the order of their pushing: with n pops made, its k-th element is    *)
(* the item of push number n + k.  So the next pop, which takes the first  *)
(* element, returns push number n + 1: the items popped so far are, in the *)
(* order of the pops, the first n items pushed, and the buffer is the rest *)
(* of the items pushed.                                                    *)
(***************************************************************************)
C19_GlobalFifo ==
    /\ Len(stamps) = Len(buffer)
    /\ BagCardinality(pushed) = BagCardinality(popped) + Len(buffer)
    /\ \A k \in 1 .. Len(buffer) : stamps[k] = <<BagCardinality(popped) + k, buffer[k]>>

C19_Witness ==
    /\ numProducers = 2
    /\ BagCardinality(popped) >= 3
    /\ Len(buffer) >= 3
    /\ buffer[1][2] # buffer[2][2]
    /\ buffer[2][2] = buffer[3][2]

(***************************************************************************)
(* C20: the lock is held across the delay.  A thread owns the lock from    *)
(* its acquisition through its mutation, its notify_one and its sleep, and *)
(* gives it up only at the end of the loop iteration (or inside a wait, or *)
(* by a panic).  From its push or remove to the end of its delay no other  *)
(* thread pushes, removes or tests its predicate: the only thing another   *)
(* thread does is leave a wait, and a thread that has left its wait stays  *)
(* where it is until the delay has ended.                                  *)
(***************************************************************************)
C20_LockHeldAcrossDelay ==
    [][\A h \in Workers :
          /\ GuardAlive(h) => mutex = h
          /\ (mutex = h /\ mutex' # h) => (pc[h] \in {"unlock", "wait"} \/ pc'[h] = "panicked")
          /\ pc[h] \in {"notify", "sleep", "unlock"} =>
                /\ buffer' = buffer
                /\ pushed' = pushed
                /\ popped' = popped
                /\ \A w \in Workers \ {h} :
                      pc'[w] # pc[w] => (pc[w] = "waiting" /\ pc'[w] = "woken")]_vars

C20_Witness ==
    \E p \in Producers, c \in Consumers :
        /\ pc[p] = "sleep"
        /\ mutex = p
        /\ pc[c] = "woken"
        /\ Len(buffer) >= 1
        /\ ~ENABLED Reacquire(c)

\* The (key, value) pairs of a sequence of inserts.
PairsOf(inserts) == {inserts[k] : k \in DOMAIN inserts}

(***************************************************************************)
(* C21: in rwlock_example every pass of a reader prints entries of one     *)
(* version of the map only, the three initial values (8080, 1000, 30) or   *)
(* the three updated values (8081, 2000, 60), never a mixture, and no      *)
(* thread owns a read guard while the writer owns the write guard.         *)
(***************************************************************************)
C21_ReaderWriterAtomicity ==
    /\ \A r \in Readers :
        \/ observed[r] \subseteq PairsOf(InitialInserts)
        \/ observed[r] \subseteq PairsOf(UpdateInserts)
    /\ read_guards = {} \/ write_guard = Free

\* One reader's last pass has printed the three initial values and another
\* reader, after the writer's update, has printed the three updated values
\* and still owns its read guard.
C21_Witness ==
    \E r1, r2 \in Readers :
        /\ observed[r1] = PairsOf(InitialInserts)
        /\ rwpc[r2] = "sleep"
        /\ observed[r2] = PairsOf(UpdateInserts)

\* The number of `*count += 1` statements completed by the threads 0 .. k - 1.
RECURSIVE CompletedBelow(_)
CompletedBelow(k) == IF k = 0 THEN 0 ELSE completed[<<"M", k - 1>>] + CompletedBelow(k - 1)

(***************************************************************************)
(* C22: in mutex_example no update is lost: at every reachable state the   *)
(* counter equals the number of increments completed so far, and once all  *)
(* threads are joined the counter, and the final count printed, is the     *)
(* number of threads times the increments of each (5 * 1000 = 5000 in the  *)
(* source).                                                                *)
(***************************************************************************)
C22_NoLostUpdate ==
    /\ counter = CompletedBelow(NUM_COUNTERS)
    /\ mxJoined = NUM_COUNTERS => counter = NUM_COUNTERS * increments
    /\ mxMain = "returned" => final = <<NUM_COUNTERS * increments>>

\* The five threads have done the largest number of increments explored,
\* interleaved, and the final count has been printed.
C22_Witness ==
    /\ mxMain = "returned"
    /\ increments = MaxIncrements
    /\ final = <<counter>>
    /\ \A t \in Counters : completed[t] = MaxIncrements

====
